---------------------------- MODULE Spec2Model ----------------------------
(***************************************************************************)
(* Model of the meal-analysis flow of src/app.py (NutriScan Pro).          *)
(*                                                                         *)
(* One run of the script serves one uploaded image: analyze_food asks the  *)
(* AI service and decodes its text, the decoded value is saved to the      *)
(* meals table, every item is looked up at the nutrition provider, and the *)
(* nutrient sums and the recommendations are rendered.  Several browser    *)
(* sessions run the script at the same time against the same database      *)
(* file.                                                                   *)
(*                                                                         *)
(* Values of the dynamically typed program are records that carry their    *)
(* Python type in a field, and every operator on them does what the Python *)
(* operation does on that type, the exception it raises included.          *)
(***************************************************************************)
EXTENDS Integers, Sequences, FiniteSets, TLC

\* Longest item list the AI response carries.
MaxItems == 3
\* Largest reading of the wall clock; readings are 0..MaxClock.
MaxClock == 2
\* Significant bits of a float (CPython: 53).  Two floats whose exact sum
\* needs more bits are rounded, which is all the model keeps of IEEE 754.
MantissaBits == 3

\* Browser sessions running the script against the one database file.
Sessions == {"s1", "s2"}
\* Contents of an uploaded file.
Images == {"imgA", "imgB"}

----------------------------------------------------------------------------
(* Numbers: JSON integers decode to int (exact), JSON reals to float.      *)

Absent == [t |-> "absent", v |-> 0]
Null   == [t |-> "null",   v |-> 0]
I(n)   == [t |-> "int",    v |-> n]
F(n)   == [t |-> "float",  v |-> n]
\* The result of an operation that raised TypeError.
Raise  == [t |-> "raise",  v |-> 0]
\* A sum the script never reached.
NotEvaluated == [t |-> "uneval", v |-> 0]

RECURSIVE Pow2(_)
Pow2(n) == IF n = 0 THEN 1 ELSE 2 * Pow2(n - 1)

RECURSIVE BitLen(_)
BitLen(n) == IF n = 0 THEN 0 ELSE 1 + BitLen(n \div 2)

\* n rounded to MantissaBits significant bits, ties to even.
RoundFloat(n) ==
    IF BitLen(n) <= MantissaBits THEN n
    ELSE LET sh   == BitLen(n) - MantissaBits
             q    == n \div Pow2(sh)
             rem  == n % Pow2(sh)
             half == Pow2(sh - 1)
             up   == rem > half \/ (rem = half /\ q % 2 = 1)
         IN  (IF up THEN q + 1 ELSE q) * Pow2(sh)

\* Python's a + b on the values a nutrient field can hold.
PyAdd(a, b) ==
    IF a.t = "raise" \/ b.t \notin {"int", "float"} THEN Raise
    ELSE IF a.t = "int" /\ b.t = "int" THEN I(a.v + b.v)
    ELSE F(RoundFloat(a.v + b.v))

----------------------------------------------------------------------------
(* Nutrient records.                                                       *)

\* The keys the script sums (lines 251-253 and the table of lines 269-274),
\* in the order it sums them.
TrackedKeySeq ==
    << "nf_protein", "nf_total_carbohydrate", "nf_total_fat",
       "nf_calcium_dv", "nf_iron_dv", "nf_potassium", "nf_vitamin_c_dv" >>
TrackedKeys == { TrackedKeySeq[i] : i \in 1..Len(TrackedKeySeq) }

\* The dict {} : no key is present.
EmptyRecord == [k \in TrackedKeys |-> Absent]

\* item.get(key, 0)
DictGet(item, key) == IF item[key].t = "absent" THEN I(0) ELSE item[key]

\* sum(item.get(key, 0) for item in nutrition_data): from 0, left to right.
RECURSIVE SumFrom(_, _, _)
SumFrom(acc, records, key) ==
    IF records = << >> THEN acc
    ELSE SumFrom(PyAdd(acc, DictGet(Head(records), key)), Tail(records), key)

\* The sum seeded with the first record's value instead of 0.
PySumSeeded(records, key) ==
    IF records = << >> THEN I(0)
    ELSE SumFrom(DictGet(Head(records), key), records, key)

PySum(records, key) == SumFrom(I(0), records, key)

----------------------------------------------------------------------------
(* Decoded JSON.  A value carries its Python type, whether it is empty     *)
(* (for a number: zero), whether 'analysis' is a key of it (dict), an      *)
(* element of it (list) or a substring of it (str), and, for a dict with   *)
(* that key, the value stored under it.                                    *)

\* One element of "items": an object with its keys, or a scalar.
Object(keys) == [t |-> "object", keys |-> keys]
Scalar       == [t |-> "scalar", keys |-> {}]
FoodItem     == Object({"name", "quantity", "unit"})

\* The value under "items": absent, a list, or a value that cannot be
\* iterated (null, a number).
NoItems        == [t |-> "absent",  elems |-> << >>]
ItemList(seq)  == [t |-> "list",    elems |-> seq]
ItemsNotIter   == [t |-> "noniter", elems |-> << >>]

\* The value under "analysis": a dict with its fields, or anything else.
Inner(items, rating, alt) ==
    [t |-> "dict", items |-> items, health_rating |-> rating,
     alternative_suggestions |-> alt]
NotADict == [t |-> "other", items |-> NoItems, health_rating |-> Absent,
             alternative_suggestions |-> "absent"]

PyNone        == [t |-> "None", empty |-> TRUE,  has |-> FALSE, inner |-> NotADict]
JsonNumber    == [t |-> "num",  empty |-> FALSE, has |-> FALSE, inner |-> NotADict]
JsonString    == [t |-> "str",  empty |-> FALSE, has |-> TRUE,  inner |-> NotADict]
JsonList      == [t |-> "list", empty |-> FALSE, has |-> TRUE,  inner |-> NotADict]
Unwrapped     == [t |-> "dict", empty |-> FALSE, has |-> FALSE, inner |-> NotADict]
Wrapped(d)    == [t |-> "dict", empty |-> FALSE, has |-> TRUE,  inner |-> d]

\* bool(x)
Truthy(x) == x.t # "None" /\ ~x.empty

\* 'analysis' in x : "TypeError" on a value that is no container.
Contains(x) ==
    IF x.t \in {"str", "list", "dict"} THEN (IF x.has THEN "True" ELSE "False")
    ELSE "TypeError"

\* x['analysis'] followed by .get : the exception it raises, or "ok".
SubscriptGet(x) ==
    IF x.t \in {"str", "list"} THEN "TypeError"
    ELSE IF x.inner.t # "dict" THEN "AttributeError"
    ELSE "ok"

\* analysis['analysis'].get('items', []) as the sequence the loop walks, for
\* a value the loop can walk.
ItemsOf(x) == x.inner.items.elems

----------------------------------------------------------------------------
(* The AI service's text, as the pieces clean_and_parse tells apart.       *)

Tok(kind)    == [tok |-> kind,   val |-> PyNone]
JsonText(x)  == [tok |-> "json", val |-> x]
Fenced(x)    == << Tok("fence json"), Tok("ws"), JsonText(x), Tok("ws"), Tok("fence") >>
Bare(x)      == << JsonText(x) >>

\* .replace(fence + 'json', '').replace(fence, ''), fence being three
\* backquotes
RemoveFences(text) ==
    SelectSeq(text, LAMBDA p : p.tok \notin {"fence json", "fence"})

\* .strip()
RECURSIVE LStrip(_)
LStrip(text) ==
    IF text # << >> /\ Head(text).tok = "ws" THEN LStrip(Tail(text)) ELSE text
RECURSIVE RStrip(_)
RStrip(text) ==
    IF text # << >> /\ text[Len(text)].tok = "ws"
    THEN RStrip(SubSeq(text, 1, Len(text) - 1)) ELSE text
Strip(text) == LStrip(RStrip(text))

\* json.loads: exactly one JSON value, white space around it allowed.
\* Anything else raises JSONDecodeError.
JsonLoads(text) ==
    LET body == SelectSeq(text, LAMBDA p : p.tok # "ws")
    IN  IF Len(body) = 1 /\ body[1].tok = "json"
        THEN [raised |-> FALSE, value |-> body[1].val]
        ELSE [raised |-> TRUE,  value |-> PyNone]

\* clean_and_parse with the except branch swallowing the error unreported.
clean_and_parse_silent(response_text) ==
    LET r == JsonLoads(Strip(RemoveFences(response_text)))
    IN  [analysis |-> IF r.raised THEN PyNone ELSE r.value, error |-> "none"]

\* src/app.py:35 : the decoded value, or None after st.error.
clean_and_parse(response_text) ==
    LET r == JsonLoads(Strip(RemoveFences(response_text)))
    IN  IF r.raised
        THEN [analysis |-> PyNone,  error |-> "Parsing error"]
        ELSE [analysis |-> r.value, error |-> "none"]

\* What generate_content / response.text gives: an exception or a text.
AIRaised      == [raised |-> TRUE,  text |-> << >>]
AIText(text)  == [raised |-> FALSE, text |-> text]

\* src/app.py:43
analyze_food(ai) ==
    IF ai.raised
    THEN [analysis |-> PyNone, error |-> "Analysis failed"]
    ELSE clean_and_parse(ai.text)

----------------------------------------------------------------------------
(* The nutrition provider.                                                 *)

\* Building the query f"{item['quantity']}{item['unit']} {item['name']}"
\* raises on a scalar and on an object that lacks one of the keys.
QueryRaises(item) ==
    item.t # "object" \/ ~({"quantity", "unit", "name"} \subseteq item.keys)

\* What requests.post gives: a network exception, a non-success response,
\* or a success whose body has no "foods", an empty "foods", or foods.
PostRaised       == [kind |-> "exception", foods |-> << >>]
NotOk            == [kind |-> "not ok",    foods |-> << >>]
OkWithoutFoods   == [kind |-> "no foods",  foods |-> << >>]
OkFoods(foods)   == [kind |-> "foods",     foods |-> foods]

\* src/app.py:59 : the record appended to nutrition_data, whether the
\* request was sent, and whether st.error was called.
get_nutrition_data(item, reply) ==
    IF QueryRaises(item)
    THEN [record |-> EmptyRecord, sent |-> FALSE, error |-> TRUE]
    ELSE IF reply.kind = "exception"
    THEN [record |-> EmptyRecord, sent |-> TRUE, error |-> TRUE]
    ELSE IF reply.kind = "not ok"
    THEN [record |-> EmptyRecord, sent |-> TRUE, error |-> FALSE]
    ELSE IF reply.kind = "no foods"
    THEN [record |-> EmptyRecord, sent |-> TRUE, error |-> FALSE]
    ELSE IF reply.foods = << >>            \* [][0] : IndexError, caught
    THEN [record |-> EmptyRecord, sent |-> TRUE, error |-> TRUE]
    ELSE [record |-> reply.foods[1], sent |-> TRUE, error |-> FALSE]

----------------------------------------------------------------------------
(* Inputs.                                                                 *)

\* A nutrient record with one value for protein and one for every other key.
Food(protein, others) ==
    [k \in TrackedKeys |-> IF k = "nf_protein" THEN protein ELSE others]

\* The smallest float that swallows an added 1.0.
Big == Pow2(MantissaBits)

\* Records the provider reports: integers, a key reported as null, keys left
\* out, and floats.
Foods ==
    { Food(I(2), I(1)), Food(I(1), Absent), Food(Null, I(1)),
      Food(F(1), I(1)), Food(F(Big), I(1)) }

Replies ==
    {PostRaised, NotOk, OkWithoutFoods, OkFoods(<< >>)}
        \cup { OkFoods(<< f >>) : f \in Foods }

ItemKinds == {FoodItem, Scalar}

RECURSIVE SeqsUpTo(_, _)
SeqsUpTo(S, n) ==
    IF n = 0 THEN {<< >>}
    ELSE LET shorter == SeqsUpTo(S, n - 1)
         IN  shorter \cup { Append(q, x) : q \in shorter, x \in S }

\* The dicts under "analysis": every item list with a rating in range, and
\* one-item meals with a rating out of range or suggestions that are no list.
Inners ==
    { Inner(ItemList(q), I(4), "list") : q \in SeqsUpTo(ItemKinds, MaxItems) }
        \cup { Inner(NoItems, I(4), "absent"), Inner(ItemsNotIter, I(4), "list"),
               Inner(ItemList(<< FoodItem >>), I(7), "list"),
               Inner(ItemList(<< FoodItem >>), Absent, "list"),
               Inner(ItemList(<< FoodItem >>), I(4), "noniter") }

\* Decoded values: null, a number, a string and a list that hold 'analysis',
\* an object without the wrapper, the wrapper around a non-object, and the
\* wrapper around an object.
Values ==
    {PyNone, JsonNumber, JsonString, JsonList, Unwrapped, Wrapped(NotADict)}
        \cup { Wrapped(d) : d \in Inners }

\* Texts: empty, prose, prose around JSON, bare JSON, fenced JSON.
Texts ==
    { << >>, << Tok("prose") >>,
      << Tok("prose"), JsonText(Wrapped(Inner(NoItems, I(4), "absent"))) >> }
        \cup { Bare(x) : x \in Values }
        \cup { Fenced(Wrapped(Inner(ItemList(<< FoodItem >>), r, "list"))) :
                 r \in {I(4), I(7)} }

AIOutcomes == {AIRaised} \cup { AIText(t) : t \in Texts }

\* The responses of the runs that share the database: no answer, prose, a
\* number, the wrapper around a non-object, a fenced one-item meal, and a
\* meal whose suggestions are no list.
FewOutcomes ==
    { AIRaised, AIText(<< Tok("prose") >>), AIText(Bare(JsonNumber)),
      AIText(Bare(Wrapped(NotADict))),
      AIText(Fenced(Wrapped(Inner(ItemList(<< FoodItem >>), I(4), "list")))),
      AIText(Bare(Wrapped(Inner(NoItems, I(4), "noniter")))) }

FewReplies == { NotOk, OkFoods(<< Food(I(2), I(1)) >>), OkFoods(<< Food(Null, I(1)) >>) }

\* Readings of datetime.now().
Timestamps == 0..MaxClock

----------------------------------------------------------------------------
(* State.                                                                  *)

VARIABLES
    pc,              \* where each session's run of the script stands
    uploaded_file,   \* the uploaded bytes
    response,        \* what the AI service gave
    analysis,        \* the value analyze_food returned
    error,           \* the st.error message analyze_food showed
    fault,           \* the exception that left the script uncaught
    meals,           \* the rows of the meals table
    timestamp,       \* the clock reading of line 223, once it is taken
    nutrition_data,  \* the records resolved so far
    sent,            \* provider requests issued
    health_score,    \* the "Health Score" badge
    totals           \* the nutrient sums rendered

vars == << pc, uploaded_file, response, analysis, error, fault, meals, timestamp,
           nutrition_data, sent, health_score, totals >>

NoTotals == [k \in TrackedKeys |-> NotEvaluated]

Init ==
    /\ pc = [s \in Sessions |-> "Idle"]
    /\ uploaded_file = [s \in Sessions |-> "none"]
    /\ response = [s \in Sessions |-> AIRaised]
    /\ analysis = [s \in Sessions |-> PyNone]
    /\ error = [s \in Sessions |-> "none"]
    /\ fault = [s \in Sessions |-> "none"]
    /\ meals = {}
    /\ timestamp = [s \in Sessions |-> << >>]
    /\ nutrition_data = [s \in Sessions |-> << >>]
    /\ sent = [s \in Sessions |-> 0]
    /\ health_score = [s \in Sessions |-> NotEvaluated]
    /\ totals = [s \in Sessions |-> NoTotals]

\* The script stops with an uncaught exception.
Crash(s, exception) ==
    /\ pc' = [pc EXCEPT ![s] = "Crashed"]
    /\ fault' = [fault EXCEPT ![s] = exception]

Goto(s, label) ==
    /\ pc' = [pc EXCEPT ![s] = label]
    /\ UNCHANGED fault

\* src/app.py:202-204 : a file is uploaded and the script runs.
Upload(s) ==
    /\ pc[s] = "Idle"
    /\ \E img \in Images : uploaded_file' = [uploaded_file EXCEPT ![s] = img]
    /\ Goto(s, "Received")
    /\ UNCHANGED << response, analysis, error, meals, timestamp, nutrition_data,
                    sent, health_score, totals >>

\* src/app.py:219
AnalyzeFood(s, outcomes) ==
    /\ pc[s] = "Received"
    /\ \E ai \in outcomes :
          /\ response' = [response EXCEPT ![s] = ai]
          /\ analysis' = [analysis EXCEPT ![s] = analyze_food(ai).analysis]
          /\ error' = [error EXCEPT ![s] = analyze_food(ai).error]
    /\ Goto(s, "Parsed")
    /\ UNCHANGED << uploaded_file, meals, timestamp, nutrition_data, sent,
                    health_score, totals >>

\* The guard with the save of lines 223-229 left out of its branch.
GuardWithoutSave(s) ==
    /\ pc[s] = "Parsed"
    /\ IF ~Truthy(analysis[s]) THEN Goto(s, "Skipped")
       ELSE IF Contains(analysis[s]) = "TypeError" THEN Crash(s, "TypeError")
       ELSE IF Contains(analysis[s]) = "False" THEN Goto(s, "Skipped")
       ELSE Goto(s, "Resolving")
    /\ UNCHANGED << uploaded_file, response, analysis, error, meals, timestamp,
                    nutrition_data, sent, health_score, totals >>

\* src/app.py:221 : if analysis and 'analysis' in analysis
Guard(s) ==
    /\ pc[s] = "Parsed"
    /\ IF ~Truthy(analysis[s]) THEN Goto(s, "Skipped")
       ELSE IF Contains(analysis[s]) = "TypeError" THEN Crash(s, "TypeError")
       ELSE IF Contains(analysis[s]) = "False" THEN Goto(s, "Skipped")
       ELSE Goto(s, "Saving")
    /\ UNCHANGED << uploaded_file, response, analysis, error, meals, timestamp,
                    nutrition_data, sent, health_score, totals >>

\* The row of lines 224-228: id and timestamp are the same clock reading.
Row(s, now) ==
    [id |-> now, timestamp |-> now, image |-> uploaded_file[s],
     analysis |-> analysis[s]]

Ids(table) == { row.id : row \in table }

\* src/app.py:223-229 : INSERT and commit.  The id is the PRIMARY KEY
\* (line 27): a second row with the same id raises IntegrityError, and the
\* store being unavailable raises OperationalError.
Save(s) ==
    /\ pc[s] = "Saving"
    /\ \E now \in Timestamps, available \in BOOLEAN :
          /\ timestamp' = [timestamp EXCEPT ![s] = << now >>]
          /\ IF ~available
             THEN Crash(s, "OperationalError") /\ UNCHANGED meals
             ELSE IF now \in Ids(meals)
             THEN Crash(s, "IntegrityError") /\ UNCHANGED meals
             ELSE /\ meals' = meals \cup {Row(s, now)}
                  /\ Goto(s, "Resolving")
    /\ UNCHANGED << uploaded_file, response, analysis, error, nutrition_data,
                    sent, health_score, totals >>

\* The loop of lines 232-233 has visited every item.
Resolved(s) == Len(nutrition_data[s]) = Len(ItemsOf(analysis[s]))

\* src/app.py:232-233 : the iterable of the comprehension is evaluated.
BeginResolve(s) ==
    /\ pc[s] = "Resolving"
    /\ nutrition_data[s] = << >>
    /\ IF SubscriptGet(analysis[s]) # "ok"
       THEN Crash(s, SubscriptGet(analysis[s]))
       ELSE IF analysis[s].inner.items.t = "noniter"
       THEN Crash(s, "TypeError")
       ELSE /\ ItemsOf(analysis[s]) = << >>
            /\ Goto(s, "Aggregating")
    /\ UNCHANGED << uploaded_file, response, analysis, error, meals, timestamp,
                    nutrition_data, sent, health_score, totals >>

\* src/app.py:232-233 : one call of get_nutrition_data.
ResolveItem(s, replies) ==
    /\ pc[s] = "Resolving"
    /\ SubscriptGet(analysis[s]) = "ok"
    /\ analysis[s].inner.items.t # "noniter"
    /\ ~Resolved(s)
    /\ \E reply \in replies :
          LET item == ItemsOf(analysis[s])[Len(nutrition_data[s]) + 1]
              got  == get_nutrition_data(item, reply)
          IN  /\ nutrition_data' =
                    [nutrition_data EXCEPT ![s] = Append(@, got.record)]
              /\ sent' = [sent EXCEPT ![s] = IF got.sent THEN @ + 1 ELSE @]
    /\ IF Len(nutrition_data[s]) + 1 = Len(ItemsOf(analysis[s]))
       THEN Goto(s, "Aggregating") ELSE Goto(s, "Resolving")
    /\ UNCHANGED << uploaded_file, response, analysis, error, meals, timestamp,
                    health_score, totals >>

\* Position of a key in the order the sums are evaluated.
KeyIndex(key) == CHOOSE i \in 1..Len(TrackedKeySeq) : TrackedKeySeq[i] = key

\* The sums of lines 251-279 in the order the script evaluates them: the
\* first one that raises ends the script, and the later ones are not reached.
Aggregate(records) ==
    LET raising == { i \in 1..Len(TrackedKeySeq) :
                        PySum(records, TrackedKeySeq[i]) = Raise }
    IN  [k \in TrackedKeys |->
            IF \E i \in raising : i < KeyIndex(k) THEN NotEvaluated
            ELSE PySum(records, k)]

\* src/app.py:236-279 : the badges, then the sums.
Render(s) ==
    /\ pc[s] = "Aggregating"
    /\ health_score' =
          [health_score EXCEPT ![s] =
              IF analysis[s].inner.health_rating.t = "absent" THEN I(0)
              ELSE analysis[s].inner.health_rating]
    /\ totals' = [totals EXCEPT ![s] = Aggregate(nutrition_data[s])]
    /\ IF \E k \in TrackedKeys : Aggregate(nutrition_data[s])[k] = Raise
       THEN Crash(s, "TypeError")
       ELSE Goto(s, "Aggregated")
    /\ UNCHANGED << uploaded_file, response, analysis, error, meals, timestamp,
                    nutrition_data, sent >>

\* src/app.py:282-291 : the loop over alternative_suggestions.
Recommend(s) ==
    /\ pc[s] = "Aggregated"
    /\ IF analysis[s].inner.alternative_suggestions = "noniter"
       THEN Crash(s, "TypeError")
       ELSE Goto(s, "Complete")
    /\ UNCHANGED << uploaded_file, response, analysis, error, meals, timestamp,
                    nutrition_data, sent, health_score, totals >>

\* One step of session s, the AI service answering from outcomes and the
\* provider from replies.
Step(s, outcomes, replies) ==
    \/ Upload(s)
    \/ AnalyzeFood(s, outcomes)
    \/ Guard(s)
    \/ Save(s)
    \/ BeginResolve(s)
    \/ ResolveItem(s, replies)
    \/ Render(s)
    \/ Recommend(s)

\* Every session runs the script, on a few responses each.
Next == \E s \in Sessions : Step(s, FewOutcomes, FewReplies)

Spec == Init /\ [][Next]_vars

\* One session runs the script, on every response.
NextSolo == Step("s1", AIOutcomes, Replies)

SpecSolo == Init /\ [][NextSolo]_vars

----------------------------------------------------------------------------
(* Vocabulary of the properties.                                           *)

PersistErrors == {"IntegrityError", "OperationalError"}

\* The run has taken its clock reading and its INSERT was committed.
Committed(s) == timestamp[s] # << >> /\ fault[s] \notin PersistErrors

\* The run reached the rendering of lines 236-279.
Rendered(s) == health_score[s] # NotEvaluated

\* The text holds something other than exactly one JSON value between its
\* fences and white space: nothing at all, prose, or prose around JSON.
Undecodable(text) ==
    LET body == { i \in 1..Len(text) :
                     text[i].tok \notin {"fence json", "fence", "ws"} }
    IN  ~(Cardinality(body) = 1 /\ \A i \in body : text[i].tok = "json")

\* The run got a text from the AI service and it is undecodable.
ParseFailed(s) ==
    /\ pc[s] \notin {"Idle", "Received"}
    /\ ~response[s].raised
    /\ Undecodable(response[s].text)

\* Every order of a sequence.
Orders(records) ==
    { [i \in 1..Len(records) |-> records[p[i]]] :
         p \in Permutations(1..Len(records)) }

\* No record holds a float under the key.
Integral(records, key) ==
    \A i \in 1..Len(records) : records[i][key].t # "float"

----------------------------------------------------------------------------
(* C1.  A response text that cannot be decoded as JSON ends the run at the *)
(* guard: the parsing error is shown, no provider request is issued, and   *)
(* no row is written to the meals table.                                   *)
C1_ParseFailureIsTerminal ==
    \A s \in Sessions :
        ParseFailed(s) =>
            /\ error[s] = "Parsing error"
            /\ pc[s] \in {"Parsed", "Skipped"}
            /\ fault[s] = "none"
            /\ sent[s] = 0
            /\ nutrition_data[s] = << >>
            /\ timestamp[s] = << >>
            /\ meals = {}

\* A run on prose has ended.
C1_Witness ==
    \E s \in Sessions :
        /\ ParseFailed(s)
        /\ response[s].text = << Tok("prose") >>
        /\ pc[s] = "Skipped"

(* C2.  A decoded response whose health_rating is an integer outside 1..5  *)
(* is rejected: its rating is never shown and it is never written to the   *)
(* meals table.                                                            *)
C2_OutOfRangeRejected ==
    \A s \in Sessions :
        (/\ pc[s] \notin {"Idle", "Received"}
         /\ analysis[s].inner.t = "dict"
         /\ analysis[s].inner.health_rating.t = "int"
         /\ analysis[s].inner.health_rating.v \notin 1..5)
            => /\ ~Committed(s)
               /\ ~Rendered(s)

(* C3.  In a two-item meal whose second lookup failed, the run does not    *)
(* stop on an exception and every total is the first item's value.         *)
C3_FailedLookupCountsZero ==
    \A s \in Sessions :
        (/\ Len(ItemsOf(analysis[s])) = 2
         /\ Len(nutrition_data[s]) = 2
         /\ nutrition_data[s][2] = EmptyRecord
         /\ pc[s] \notin {"Resolving", "Aggregating"})
            => /\ fault[s] = "none"
               /\ \A k \in TrackedKeys :
                     totals[s][k] = DictGet(nutrition_data[s][1], k)

(* C4.  A run whose INSERT or commit failed is carried through: it does    *)
(* not stop there.                                                         *)
C4_PersistFailureDoesNotAbort ==
    \A s \in Sessions :
        (/\ timestamp[s] # << >>
         /\ ~\E row \in meals : row.id = timestamp[s][1])
            => pc[s] # "Crashed"

\* The run's INSERT reached the table with the id it generated.
Inserting(s) == timestamp[s] # << >> /\ fault[s] # "OperationalError"

(* C5.  Two runs whose INSERT reaches the table never carry the same       *)
(* record id, and no INSERT fails on an id that is already in the table.   *)
C5_IdsDiffer ==
    /\ \A s, t \in Sessions :
          (s # t /\ Inserting(s) /\ Inserting(t))
              => timestamp[s] # timestamp[t]
    /\ \A s \in Sessions : fault[s] # "IntegrityError"

C7_NoUncaughtFault ==
    \A s \in Sessions :
        /\ fault[s] = "none"
        /\ pc[s] = "Skipped" => error[s] # "none"

(* C8.  A completed run has its row in the meals table and a run that      *)
(* failed has none.                                                        *)
C8_OneRecordPerSuccess ==
    \A s \in Sessions :
        /\ pc[s] = "Complete" =>
              /\ Committed(s)
              /\ Cardinality({ row \in meals : row.id = timestamp[s][1] }) = 1
        /\ pc[s] \in {"Crashed", "Skipped"} => ~Committed(s)

C10_SumsAreNumbers ==
    \A s \in Sessions :
        Rendered(s) =>
            \A k \in TrackedKeys : totals[s][k].t \in {"int", "float"}

=============================================================================
